---- MODULE Spec2Model ----
(***************************************************************************)
(* DataCleaner (src/DataCleaner/cleaner.py): the cleaning pipeline run by  *)
(* main and the transformation stages it calls.  A DataFrame is modelled   *)
(* as its column labels, column dtypes, row index labels and cell values;  *)
(* the pandas calls of the source are modelled by what pandas computes.    *)
(*                                                                         *)
(* AutoFileSorter (src/AutoFileSorter/script.py): the loop of main over    *)
(* archive files that all have the same name, and the Archives folder      *)
(* they are moved or copied into.                                          *)
(***************************************************************************)
EXTENDS Integers, Sequences, FiniteSets, TLC

VARIABLES
    pc,         \* position of main, or of the caller of the stages
    argv,       \* the command line
    args,       \* the argparse namespace
    df,         \* main's local df
    status,     \* exit status of the process (-1 while running)
    stdout,     \* lines printed to stdout
    stderr,     \* lines printed to stderr
    outfile,    \* the file at out_path
    log,        \* history: the stage calls made so far, with argument and result
    fcall,      \* stage spec: the last stage call made on the table
    fprev,      \* stage spec: the table object passed to the last call, before the call
    farg,       \* stage spec: the same table object after the call
    ftab,       \* stage spec: the table returned by the last call
    ferr,       \* stage spec: the exception raised by the last call ("" if none)
    fconv,      \* the last call of convert_fill_value: dtype, val and the value returned
    forig,      \* stage spec, history: the missing cells <<index label, column>>
                \* of the table the caller started with
    sargs,      \* file sorter: the options copy, dry_run, extract
    files,      \* file sorter: the archives still to process (their contents)
    source,     \* file sorter: the archives that are in the source tree
    folder,     \* file sorter: the Archives folder, the content under each name
    written,    \* file sorter: the name the last move_or_copy wrote to, if any
    unpacked,   \* file sorter, history: the handle_archive calls made
    finit       \* file sorter, history: the Archives folder at the start

sorterVars == <<sargs, files, source, folder, written, unpacked, finit>>
vars == <<pc, argv, args, df, status, stdout, stderr, outfile, log,
          fcall, fprev, farg, ftab, ferr, fconv, forig, sorterVars>>
mainVars == <<argv, args, df, status, stdout, stderr, outfile, log>>
stageVars == <<fcall, fprev, farg, ftab, ferr, fconv, forig, sorterVars>>

(***************************************************************************)
(* Bounds                                                                  *)
(***************************************************************************)
MaxLoadRows == 2      \* rows of an input file in the pipeline specification
MaxRows == 2          \* rows of a two-column table in the stage specification
MaxNarrowRows == 5    \* rows of a one-column table in the stage specification
MaxSuffix == 2        \* file sorter: the Archives folder starts with files of
                      \* the archive's name up to the suffix _MaxSuffix
MaxFiles == 2         \* file sorter: archives of the same name in the source tree

(***************************************************************************)
(* Cell values: the missing marker (NaN/None), numbers (as reduced         *)
(* fractions n/d) and text.                                                *)
(***************************************************************************)
NA == [k |-> "na", n |-> 0, d |-> 1, s |-> ""]
Num(n, d) == [k |-> "num", n |-> n, d |-> d, s |-> ""]
Str(s) == [k |-> "str", n |-> 0, d |-> 1, s |-> s]
IsNA(v) == v.k = "na"

\* Optional[Sequence[str]] and Optional[str]
None == [some |-> FALSE, v |-> <<>>]
Some(x) == [some |-> TRUE, v |-> x]
NoneStr == [some |-> FALSE, v |-> ""]
SomeStr(x) == [some |-> TRUE, v |-> x]
\* Python truthiness of an Optional[Sequence]: None and the empty list are falsy
Truthy(o) == o.some /\ o.v # <<>>

Range(s) == {s[i] : i \in 1..Len(s)}

Abs(x) == IF x < 0 THEN -x ELSE x
RECURSIVE Gcd(_, _)
Gcd(a, b) == IF b = 0 THEN a ELSE Gcd(b, a % b)
\* the number p/q (q > 0) as a cell value
Frac(p, q) ==
    LET g == Gcd(Abs(p), q) IN
    IF p = 0 THEN Num(0, 1) ELSE Num(p \div g, q \div g)
NumLess(x, y) == x.n * y.d < y.n * x.d

(***************************************************************************)
(* DataFrames                                                              *)
(***************************************************************************)
NoTable == [cols |-> <<>>, dtypes |-> <<>>, index |-> <<>>, rows |-> <<>>]

HasCol(t, c) == \E i \in 1..Len(t.cols) : t.cols[i] = c
ColIdx(t, c) == CHOOSE i \in 1..Len(t.cols) : t.cols[i] = c
NRows(t) == Len(t.index)
\* df[c] as the sequence of its cells
Column(t, c) == [r \in 1..NRows(t) |-> t.rows[r][ColIdx(t, c)]]
Cell(t, r, c) == t.rows[r][ColIdx(t, c)]
DtypeOf(t, c) == t.dtypes[ColIdx(t, c)]
\* DataFrame.empty: some axis has length 0
IsEmpty(t) == NRows(t) = 0 \/ Len(t.cols) = 0

\* the elements of s at the positions in P, in order
RECURSIVE PickFrom(_, _, _)
PickFrom(s, i, P) ==
    IF i > Len(s) THEN <<>>
    ELSE (IF i \in P THEN <<s[i]>> ELSE <<>>) \o PickFrom(s, i + 1, P)
Pick(s, P) == PickFrom(s, 1, P)

\* mutant of TakeRows: the rows kept are numbered anew from 0
TakeRows_ResetIndex(t, P) ==
    [t EXCEPT !.index = [i \in 1..Len(Pick(t.index, P)) |-> i - 1],
              !.rows = Pick(t.rows, P)]

\* the frame restricted to the row positions in P (labels and cells kept)
TakeRows(t, P) ==
    [t EXCEPT !.index = Pick(t.index, P), !.rows = Pick(t.rows, P)]
\* the frame restricted to the column positions in P
TakeCols(t, P) ==
    [t EXCEPT !.cols = Pick(t.cols, P),
              !.dtypes = Pick(t.dtypes, P),
              !.rows = [r \in 1..Len(t.rows) |-> Pick(t.rows[r], P)]]

\* the dtype pandas.read_csv infers for a column from its parsed cells
InferDtype(cells) ==
    IF Len(cells) = 0 THEN "object"
    ELSE IF \A i \in 1..Len(cells) : cells[i].k \in {"na", "num"}
         THEN IF \A i \in 1..Len(cells) : cells[i].k = "num" /\ cells[i].d = 1
              THEN "int64" ELSE "float64"
         ELSE "object"

\* the frame read_csv builds: RangeIndex 0..n-1 and inferred dtypes
MkTable(cols, rows) ==
    [cols |-> cols,
     dtypes |-> [c \in 1..Len(cols) |->
                    InferDtype([r \in 1..Len(rows) |-> rows[r][c]])],
     index |-> [r \in 1..Len(rows) |-> r - 1],
     rows |-> rows]

\* result of a stage call: the exception raised ("" if none), the returned
\* frame, and the state of the frame object that was passed in
Ok(ret, arg) == [err |-> "", ret |-> ret, arg |-> arg]
Raise(e, arg) == [err |-> e, ret |-> NoTable, arg |-> arg]

(***************************************************************************)
(* remove_duplicates                                                       *)
(***************************************************************************)
\* mutant of Agree: a missing cell equals nothing, not even a missing cell
Agree_NaNUnequal(t, i, j, cmp) ==
    \A k \in 1..Len(cmp) :
        /\ ~IsNA(Cell(t, i, cmp[k]))
        /\ Cell(t, i, cmp[k]) = Cell(t, j, cmp[k])

\* rows i and j of t have equal cells in every column of cmp; pandas
\* factorizes the cells, so two missing markers are equal
Agree(t, i, j, cmp) ==
    \A k \in 1..Len(cmp) : Cell(t, i, cmp[k]) = Cell(t, j, cmp[k])

\* mutant of Duplicated: only the first duplicate row of the frame is marked
Duplicated_FirstOnly(t, i, cmp) ==
    /\ \E j \in 1..(i - 1) : Agree(t, j, i, cmp)
    /\ ~\E i2 \in 1..(i - 1) : \E j \in 1..(i2 - 1) : Agree(t, j, i2, cmp)

\* DataFrame.duplicated(subset, keep="first") on a frame with the columns of cmp
Duplicated(t, i, cmp) == \E j \in 1..(i - 1) : Agree(t, j, i, cmp)

\* DataFrame.drop_duplicates(subset, keep="first"): an empty frame is
\* returned as a copy before the subset is looked at; otherwise a label of
\* the subset that is no column raises KeyError
DropDuplicates(t, subset) ==
    IF IsEmpty(t) THEN Ok(t, t)
    ELSE LET cmp == IF subset.some THEN subset.v ELSE t.cols IN
         IF \E k \in 1..Len(cmp) : ~HasCol(t, cmp[k])
         THEN Raise("KeyError", t)
         ELSE Ok(TakeRows(t, {i \in 1..NRows(t) : ~Duplicated(t, i, cmp)}), t)

remove_duplicates(t, subset) ==
    DropDuplicates(t, IF Truthy(subset) THEN Some(subset.v) ELSE None)

(***************************************************************************)
(* drop_constant_columns                                                   *)
(***************************************************************************)
\* mutant of NUnique: the missing marker is counted as a value
NUnique_CountNA(t, c) ==
    Cardinality({Cell(t, r, c) : r \in 1..NRows(t)})

\* Series.nunique(dropna=True)
NUnique(t, c) ==
    Cardinality({Cell(t, r, c) : r \in 1..NRows(t)} \ {NA})

drop_constant_columns(t) ==
    LET cols_to_drop == {i \in 1..Len(t.cols) : NUnique(t, t.cols[i]) <= 1}
    IN Ok(TakeCols(t, (1..Len(t.cols)) \ cols_to_drop), t)

(***************************************************************************)
(* convert_fill_value                                                      *)
(***************************************************************************)
Bool(b) == [k |-> "bool", n |-> IF b THEN 1 ELSE 0, d |-> 1, s |-> ""]

\* the --fill strings of the model
FillStrings == {"0", "1.5", "abc", "Yes", "N", "nan", ""}
\* the column dtypes of the model
Dtypes == {"int64", "float64", "bool", "object"}
\* the texts of the model in str order (code point order)
StrOrder == <<"", "0", "1.5", "N", "Yes", "abc", "nan", "u", "v">>
\* int(val) and float(val): ok and the parsed number, or not ok for
\* ValueError; float("nan") is NaN
Parsed(v) == [ok |-> TRUE, v |-> v]
ParseError == [ok |-> FALSE, v |-> NA]
ParseInt(val) == IF val = "0" THEN Parsed(Num(0, 1)) ELSE ParseError
ParseFloat(val) ==
    IF val = "0" THEN Parsed(Num(0, 1))
    ELSE IF val = "1.5" THEN Parsed(Num(3, 2))
    ELSE IF val = "nan" THEN Parsed(NA)
    ELSE ParseError
\* val.lower()
Lower(val) == IF val = "Yes" THEN "yes" ELSE IF val = "N" THEN "n" ELSE val

\* mutant of convert_fill_value: the boolean words are matched as written
convert_fill_value_CaseSensitive(dtype, val) ==
    IF dtype = "int64"
    THEN (IF ParseInt(val).ok THEN ParseInt(val).v ELSE Str(val))
    ELSE IF dtype = "float64"
    THEN (IF ParseFloat(val).ok THEN ParseFloat(val).v ELSE Str(val))
    ELSE IF dtype = "bool"
    THEN (IF val \in {"1", "true", "t", "yes", "y"} THEN Bool(TRUE)
          ELSE IF val \in {"0", "false", "f", "no", "n"} THEN Bool(FALSE)
          ELSE Bool(val # ""))
    ELSE Str(val)

\* the exception of int(val) or float(val) is caught and val is returned
convert_fill_value(dtype, val) ==
    IF dtype = "int64"
    THEN (IF ParseInt(val).ok THEN ParseInt(val).v ELSE Str(val))
    ELSE IF dtype = "float64"
    THEN (IF ParseFloat(val).ok THEN ParseFloat(val).v ELSE Str(val))
    ELSE IF dtype = "bool"
    THEN (IF Lower(val) \in {"1", "true", "t", "yes", "y"} THEN Bool(TRUE)
          ELSE IF Lower(val) \in {"0", "false", "f", "no", "n"} THEN Bool(FALSE)
          ELSE Bool(val # ""))
    ELSE Str(val)

(***************************************************************************)
(* fill_missing                                                            *)
(***************************************************************************)
Strategies == {"drop", "mean", "median", "mode", "constant"}

NonNA(cells) == SelectSeq(cells, LAMBDA v : ~IsNA(v))

\* mutant of DropNa: a row is dropped only if all its target cells are missing
DropNa_All(t, cols) ==
    IF \E k \in 1..Len(cols) : ~HasCol(t, cols[k])
    THEN Raise("KeyError", t)
    ELSE Ok(TakeRows(t, {r \in 1..NRows(t) :
                \E k \in 1..Len(cols) : ~IsNA(Cell(t, r, cols[k]))}), t)

\* DataFrame.dropna(subset=cols): KeyError for a label that is no column,
\* else the rows with no missing cell in any column of cols
DropNa(t, cols) ==
    IF \E k \in 1..Len(cols) : ~HasCol(t, cols[k])
    THEN Raise("KeyError", t)
    ELSE Ok(TakeRows(t, {r \in 1..NRows(t) :
                \A k \in 1..Len(cols) : ~IsNA(Cell(t, r, cols[k]))}), t)

\* Series.fillna(v) stored back as column c: every missing cell of the
\* column becomes v; fillna(NaN) changes nothing.  A text put into a
\* numeric column makes the column object
FillCol(t, c, v) ==
    LET i == ColIdx(t, c)
        hit == \E r \in 1..NRows(t) : IsNA(t.rows[r][i])
    IN IF IsNA(v) \/ ~hit THEN t
       ELSE [t EXCEPT
              !.rows = [r \in 1..NRows(t) |->
                          [t.rows[r] EXCEPT ![i] = IF IsNA(@) THEN v ELSE @]],
              !.dtypes[i] = IF v.k = "str" THEN "object" ELSE @]

\* DataFrame.fillna(value={c: convert_fill_value(df[c].dtype, fill_value)
\*                         for c in target_cols}), columns k.. of cols;
\* df[c] raises KeyError while the dict is built, before any fill
RECURSIVE FillConstFrom(_, _, _, _, _)
FillConstFrom(t, orig, cols, k, val) ==
    IF k > Len(cols) THEN t
    ELSE FillConstFrom(
            FillCol(t, cols[k], convert_fill_value(DtypeOf(orig, cols[k]), val)),
            orig, cols, k + 1, val)
\* mutant of FillConstant: the fill is made in the frame passed in
\* (fillna(..., inplace=True)) and that frame is returned
FillConstant_InPlace(t, cols, val) ==
    IF \E k \in 1..Len(cols) : ~HasCol(t, cols[k])
    THEN Raise("KeyError", t)
    ELSE Ok(FillConstFrom(t, t, cols, 1, val), FillConstFrom(t, t, cols, 1, val))

FillConstant(t, cols, val) ==
    IF \E k \in 1..Len(cols) : ~HasCol(t, cols[k])
    THEN Raise("KeyError", t)
    ELSE Ok(FillConstFrom(t, t, cols, 1, val), t)

NumAdd(x, y) == Frac(x.n * y.d + y.n * x.d, x.d * y.d)
RECURSIVE NumSum(_)
NumSum(s) == IF s = <<>> THEN Num(0, 1) ELSE NumAdd(Head(s), NumSum(Tail(s)))
\* mutant of Mean: the sum is divided by the number of rows, missing or not
Mean_CountsMissing(cells) ==
    LET xs == NonNA(cells) IN
    IF xs = <<>> THEN NA
    ELSE Frac(NumSum(xs).n, NumSum(xs).d * Len(cells))

\* Series.mean(): NaN when the column has no value
Mean(cells) ==
    LET xs == NonNA(cells) IN
    IF xs = <<>> THEN NA
    ELSE Frac(NumSum(xs).n, NumSum(xs).d * Len(xs))
\* Series.median(): NaN when the column has no value
Median(cells) ==
    LET xs == SortSeq(NonNA(cells), NumLess)
        m == Len(xs)
    IN IF m = 0 THEN NA
       ELSE IF m % 2 = 1 THEN xs[(m + 1) \div 2]
       ELSE Frac(NumAdd(xs[m \div 2], xs[m \div 2 + 1]).n,
                 NumAdd(xs[m \div 2], xs[m \div 2 + 1]).d * 2)

\* select_dtypes(include=["number"])
IsNumberDtype(dt) == dt \in {"int64", "float64"}

\* the loop of the mean/median branch over the columns k.. of agg
RECURSIVE FillStatFrom(_, _, _, _)
FillStatFrom(t, agg, k, strategy) ==
    IF k > Len(agg) THEN t
    ELSE LET c == agg[k]
             v == IF strategy = "mean" THEN Mean(Column(t, c))
                  ELSE Median(Column(t, c))
         IN FillStatFrom(FillCol(t, c, v), agg, k + 1, strategy)
\* columns are unique: df[target_cols] repeats a column named twice, and the
\* loop then fills it twice, which is the same as once
FillStat(t, cols, strategy) ==
    IF \E k \in 1..Len(cols) : ~HasCol(t, cols[k])
    THEN Raise("KeyError", t)
    ELSE LET agg == SelectSeq(cols, LAMBDA c : IsNumberDtype(DtypeOf(t, c)))
             res == FillStatFrom(t, agg, 1, strategy)
         IN Ok(res, res)

StrRank(s) == CHOOSE i \in 1..Len(StrOrder) : StrOrder[i] = s
ValLess(x, y) ==
    IF x.k = "str" /\ y.k = "str" THEN StrRank(x.s) < StrRank(y.s)
    ELSE IF x.k = "str" \/ y.k = "str" THEN x.k # "str"
    ELSE NumLess(x, y)
Count(cells, v) == Cardinality({r \in 1..Len(cells) : cells[r] = v})
\* mutant of Modes: the most frequent values in the order of their first
\* occurrence in the column
Modes_Unsorted(cells) ==
    LET vals == Range(cells) \ {NA}
        best == {v \in vals : \A w \in vals : Count(cells, w) <= Count(cells, v)}
    IN Pick(NonNA(cells),
            {i \in 1..Len(NonNA(cells)) :
                /\ NonNA(cells)[i] \in best
                /\ \A j \in 1..(i - 1) : NonNA(cells)[j] # NonNA(cells)[i]})

\* Series.mode(dropna=True): the most frequent values, sorted.  A column
\* that holds numbers and texts has no missing cell (only a constant fill of
\* every missing cell makes one), so the order of its modes is never used
Modes(cells) ==
    LET vals == Range(cells) \ {NA}
        best == {v \in vals : \A w \in vals : Count(cells, w) <= Count(cells, v)}
    IN SortSeq(Pick(NonNA(cells),
                    {i \in 1..Len(NonNA(cells)) :
                        /\ NonNA(cells)[i] \in best
                        /\ \A j \in 1..(i - 1) : NonNA(cells)[j] # NonNA(cells)[i]}),
               ValLess)

\* the loop of the mode branch over the columns k.. of cols: df[c] raises
\* KeyError when the loop reaches a label that is no column, after the
\* columns before it were filled in place
RECURSIVE FillModeFrom(_, _, _)
FillModeFrom(t, cols, k) ==
    IF k > Len(cols) THEN Ok(t, t)
    ELSE IF ~HasCol(t, cols[k]) THEN Raise("KeyError", t)
    ELSE LET modes == Modes(Column(t, cols[k]))
         IN FillModeFrom(IF modes # <<>> THEN FillCol(t, cols[k], modes[1]) ELSE t,
                         cols, k + 1)

\* mutant of fill_missing: an unknown strategy returns the frame as it is
fill_missing_UnknownReturns(t, strategy, fill_value, subset) ==
    LET target_cols == IF Truthy(subset) THEN subset.v ELSE t.cols IN
    IF strategy = "drop" THEN DropNa(t, target_cols)
    ELSE IF strategy = "constant"
    THEN (IF ~fill_value.some
          THEN Raise("ValueError: fill_value must be provided", t)
          ELSE FillConstant(t, target_cols, fill_value.v))
    ELSE IF strategy \in {"mean", "median"} THEN FillStat(t, target_cols, strategy)
    ELSE IF strategy = "mode" THEN FillModeFrom(t, target_cols, 1)
    ELSE Ok(t, t)

\* mutant of fill_missing: constant does not check that a fill value is given
fill_missing_NoFillCheck(t, strategy, fill_value, subset) ==
    LET target_cols == IF Truthy(subset) THEN subset.v ELSE t.cols IN
    IF strategy = "drop" THEN DropNa(t, target_cols)
    ELSE IF strategy = "constant"
    THEN FillConstant(t, target_cols, fill_value.v)
    ELSE IF strategy \in {"mean", "median"} THEN FillStat(t, target_cols, strategy)
    ELSE IF strategy = "mode" THEN FillModeFrom(t, target_cols, 1)
    ELSE Raise("ValueError: unknown strategy", t)

fill_missing(t, strategy, fill_value, subset) ==
    LET target_cols == IF Truthy(subset) THEN subset.v ELSE t.cols IN
    IF strategy = "drop" THEN DropNa(t, target_cols)
    ELSE IF strategy = "constant"
    THEN (IF ~fill_value.some
          THEN Raise("ValueError: fill_value must be provided", t)
          ELSE FillConstant(t, target_cols, fill_value.v))
    ELSE IF strategy \in {"mean", "median"} THEN FillStat(t, target_cols, strategy)
    ELSE IF strategy = "mode" THEN FillModeFrom(t, target_cols, 1)
    ELSE Raise("ValueError: unknown strategy", t)

(***************************************************************************)
(* The pipeline: main.  The --sep and --out options only choose the        *)
(* delimiters and the output path and are not modelled; there is one       *)
(* input path and one output path.                                         *)
(***************************************************************************)
\* the input files of the model: columns a (numbers) and b (text)
LoadRowSet ==
    {<<x, y>> : x \in {NA, Num(1, 1)}, y \in {Str("u"), Str("v")}}
LoadTables ==
    {MkTable(<<"a", "b">>, rows) :
        rows \in UNION {[1..n -> LoadRowSet] : n \in 0..MaxLoadRows}}

\* the command lines of the model
ArgvSet ==
    [pretest : BOOLEAN,
     input : {NoneStr, SomeStr("in.csv")},
     dedup : BOOLEAN,
     dedup_cols : {None, Some(<<"a">>), Some(<<"x">>)},
     drop_const : BOOLEAN,
     missing : {NoneStr} \cup {SomeStr(m) : m \in Strategies \cup {"bogus"}},
     fill : {NoneStr, SomeStr("0")},
     missing_cols : {None, Some(<<"a">>), Some(<<"x">>)}]

NoArgs ==
    [pretest |-> FALSE, input |-> NoneStr, dedup |-> FALSE, dedup_cols |-> None,
     drop_const |-> FALSE, missing |-> NoneStr, fill |-> NoneStr,
     missing_cols |-> None]

NoFile == [state |-> "absent", cols |-> <<>>, rows |-> <<>>]
Entry(stage, inp, out, err) ==
    [stage |-> stage, inp |-> inp, out |-> out, err |-> err]

\* sys.exit(code) after a message on stderr
Exit(code, line) ==
    /\ status' = code
    /\ stderr' = Append(stderr, line)
    /\ pc' = "done"

\* an exception no handler of main catches: traceback, exit status 1
Uncaught == Exit(1, "Traceback")

\* parse_args: argparse rejects a --missing value outside its choices
ParseArgs ==
    /\ pc = "start"
    /\ IF argv.missing.some /\ argv.missing.v \notin Strategies
       THEN Exit(2, "usage") /\ UNCHANGED args
       ELSE /\ args' = argv
            /\ pc' = "pretest"
            /\ UNCHANGED <<status, stderr>>
    /\ UNCHANGED <<argv, df, stdout, outfile, log, stageVars>>

\* main: handle pretest first
Pretest ==
    /\ pc = "pretest"
    /\ IF args.pretest
       THEN /\ stdout' = Append(stdout, "Created test files")
            /\ status' = 0
            /\ pc' = "done"
       ELSE /\ pc' = "input"
            /\ UNCHANGED <<stdout, status>>
    /\ UNCHANGED <<argv, args, df, stderr, outfile, log, stageVars>>

\* main: the input checks
CheckInput ==
    /\ pc = "input"
    /\ IF ~args.input.some \/ args.input.v = ""
       THEN Exit(2, "Input file not provided.")
       ELSE \E isfile \in BOOLEAN :
               IF ~isfile
               THEN Exit(2, "Input file not found")
               ELSE pc' = "load" /\ UNCHANGED <<status, stderr>>
    /\ UNCHANGED <<argv, args, df, stdout, outfile, log, stageVars>>

\* main: read_table under its handler
Load ==
    /\ pc = "load"
    /\ \/ /\ Exit(3, "Failed to read input")
          /\ log' = Append(log, Entry("read_table", NoTable, NoTable, "Exception"))
          /\ UNCHANGED df
       \/ \E t \in LoadTables :
             /\ df' = t
             /\ log' = Append(log, Entry("read_table", NoTable, t, ""))
             /\ pc' = "dedup"
             /\ UNCHANGED <<status, stderr>>
    /\ UNCHANGED <<argv, args, stdout, outfile, stageVars>>

\* mutant of Dedup: the table remove_duplicates returns is not assigned to df
Dedup_ResultDiscarded ==
    /\ pc = "dedup"
    /\ IF args.dedup
       THEN LET r == remove_duplicates(df, args.dedup_cols) IN
            /\ log' = Append(log, Entry("remove_duplicates", df, r.ret, r.err))
            /\ IF r.err # ""
               THEN Uncaught /\ UNCHANGED df
               ELSE /\ df' = df
                    /\ pc' = "drop_const"
                    /\ UNCHANGED <<status, stderr>>
       ELSE /\ pc' = "drop_const"
            /\ UNCHANGED <<df, log, status, stderr>>
    /\ UNCHANGED <<argv, args, stdout, outfile, stageVars>>

\* main: if args.dedup: df = remove_duplicates(df, subset=args.dedup_cols)
Dedup ==
    /\ pc = "dedup"
    /\ IF args.dedup
       THEN LET r == remove_duplicates(df, args.dedup_cols) IN
            /\ log' = Append(log, Entry("remove_duplicates", df, r.ret, r.err))
            /\ IF r.err # ""
               THEN Uncaught /\ UNCHANGED df
               ELSE /\ df' = r.ret
                    /\ pc' = "drop_const"
                    /\ UNCHANGED <<status, stderr>>
       ELSE /\ pc' = "drop_const"
            /\ UNCHANGED <<df, log, status, stderr>>
    /\ UNCHANGED <<argv, args, stdout, outfile, stageVars>>

\* main: if args.drop_const: df = drop_constant_columns(df)
DropConst ==
    /\ pc = "drop_const"
    /\ IF args.drop_const
       THEN LET r == drop_constant_columns(df) IN
            /\ log' = Append(log, Entry("drop_constant_columns", df, r.ret, r.err))
            /\ df' = r.ret
       ELSE UNCHANGED <<df, log>>
    /\ pc' = "missing"
    /\ UNCHANGED <<argv, args, status, stdout, stderr, outfile, stageVars>>

\* mutant of FillMissing: the handler prints the error and does not exit
FillMissing_NoExit ==
    /\ pc = "missing"
    /\ IF args.missing.some /\ args.missing.v # ""
       THEN LET r == fill_missing(df, args.missing.v, args.fill, args.missing_cols) IN
            /\ log' = Append(log, Entry("fill_missing", df, r.ret, r.err))
            /\ pc' = "write"
            /\ UNCHANGED status
            /\ IF r.err # ""
               THEN stderr' = Append(stderr, "Missing-handling error") /\ UNCHANGED df
               ELSE df' = r.ret /\ UNCHANGED stderr
       ELSE /\ pc' = "write"
            /\ UNCHANGED <<df, log, status, stderr>>
    /\ UNCHANGED <<argv, args, stdout, outfile, stageVars>>

\* main: if args.missing: df = fill_missing(...) under its handler
FillMissing ==
    /\ pc = "missing"
    /\ IF args.missing.some /\ args.missing.v # ""
       THEN LET r == fill_missing(df, args.missing.v, args.fill, args.missing_cols) IN
            /\ log' = Append(log, Entry("fill_missing", df, r.ret, r.err))
            /\ IF r.err # ""
               THEN Exit(4, "Missing-handling error") /\ UNCHANGED df
               ELSE /\ df' = r.ret
                    /\ pc' = "write"
                    /\ UNCHANGED <<status, stderr>>
       ELSE /\ pc' = "write"
            /\ UNCHANGED <<df, log, status, stderr>>
    /\ UNCHANGED <<argv, args, stdout, outfile, stageVars>>

\* main: write_table under its handler; to_csv either writes the whole
\* frame (without the index) or raises, leaving no file or a partial one
Write ==
    /\ pc = "write"
    /\ \/ /\ outfile' = [state |-> "complete", cols |-> df.cols, rows |-> df.rows]
          /\ log' = Append(log, Entry("write_table", df, NoTable, ""))
          /\ pc' = "confirm"
          /\ UNCHANGED <<status, stderr>>
       \/ /\ outfile' \in {NoFile, [NoFile EXCEPT !.state = "partial"]}
          /\ log' = Append(log, Entry("write_table", df, NoTable, "Exception"))
          /\ Exit(5, "Failed to write output")
    /\ UNCHANGED <<argv, args, df, stdout, stageVars>>

\* main: print(f"Wrote cleaned file: {out_path}") and return
Confirm ==
    /\ pc = "confirm"
    /\ stdout' = Append(stdout, "Wrote cleaned file")
    /\ status' = 0
    /\ pc' = "done"
    /\ UNCHANGED <<argv, args, df, stderr, outfile, log, stageVars>>

NoCall == [op |-> "none", subset |-> None, strategy |-> "", fill |-> NoneStr,
           removed |-> FALSE, repeat |-> 0]

(***************************************************************************)
(* AutoFileSorter: the Archives folder.  Every archive of the model has    *)
(* the same file name, so target = target_folder / file_path.name is the   *)
(* same path for all of them.  A name of the folder is a number: 0 is      *)
(* target itself, i is the candidate stem_i.suffix of unique_target_path.  *)
(* A content is <<>> for no file, <<0>> for a file that was in the folder  *)
(* at the start, <<k>> for the k-th archive of the source tree.            *)
(***************************************************************************)
NameIdx == 0..(MaxSuffix + MaxFiles)
NoFolder == [n \in NameIdx |-> <<>>]
NoSortArgs == [copy |-> FALSE, dry_run |-> FALSE, extract |-> FALSE]
\* the file sorter is not running
SorterIdle ==
    /\ sargs = NoSortArgs
    /\ files = <<>>
    /\ source = {}
    /\ folder = NoFolder
    /\ written = <<>>
    /\ unpacked = <<>>
    /\ finit = NoFolder

\* the loop of unique_target_path from candidate i on
RECURSIVE Candidate(_, _)
Candidate(fd, i) == IF fd[i] = <<>> THEN i ELSE Candidate(fd, i + 1)
\* unique_target_path(target): target if no file has that name, else the
\* first candidate that no file has
unique_target_path(fd) == IF fd[0] = <<>> THEN 0 ELSE Candidate(fd, 1)

\* move_or_copy(file, target, copy, dry_run): the source tree and the folder
\* after the call, and the name written to.  ok: shutil.copy2 / shutil.move
\* did not raise (an exception is logged and swallowed)
move_or_copy(src, fd, file, copy, dry_run, ok) ==
    IF dry_run THEN [source |-> src, folder |-> fd, written |-> <<>>]
    ELSE LET dest == unique_target_path(fd) IN
         IF ok
         THEN [source |-> IF copy THEN src ELSE src \ {file},
               folder |-> [fd EXCEPT ![dest] = <<file>>],
               written |-> <<dest>>]
         ELSE [source |-> src, folder |-> fd, written |-> <<>>]

\* handle_archive(src, extract=True, target_folder, dry_run=False): unpacks
\* the file at src; ok: shutil.unpack_archive did not raise
handle_archive(fd, src, ok) ==
    [src |-> src, found |-> fd[src], done |-> ok /\ fd[src] # <<>>]

NoConv == [dtype |-> "", val |-> "", ret |-> NA]

\* a run of main on a command line
InitMain ==
    /\ pc = "start"
    /\ argv \in ArgvSet
    /\ args = NoArgs
    /\ df = NoTable
    /\ status = -1
    /\ stdout = <<>>
    /\ stderr = <<>>
    /\ outfile = NoFile
    /\ log = <<>>
    /\ fcall = NoCall
    /\ fprev = NoTable
    /\ farg = NoTable
    /\ ftab = NoTable
    /\ ferr = ""
    /\ fconv = NoConv
    /\ forig = {}
    /\ SorterIdle

(***************************************************************************)
(* The transformation stages called directly, one after another, on a      *)
(* table: each call is made on the table the previous call returned.       *)
(* pc is "call" before a call and "returned" after it.                     *)
(***************************************************************************)
WideRowSet ==
    {<<x, y>> : x \in {NA, Num(1, 1)}, y \in {NA, Str("u")}}
NarrowRowSet == {<<x>> : x \in {NA, Num(1, 1)}}
\* tables with ties between the most frequent values, and the tables of the
\* mean and median examples
ExampleTables ==
    {MkTable(<<"a">>, <<<<Num(1, 1)>>, <<NA>>, <<Num(3, 1)>>>>),
     MkTable(<<"a">>, <<<<Num(1, 1)>>, <<NA>>, <<Num(3, 1)>>, <<Num(3, 1)>>>>),
     MkTable(<<"a">>, <<<<Num(1, 1)>>, <<Num(2, 1)>>, <<NA>>, <<Num(2, 1)>>>>),
     MkTable(<<"a", "b">>,
             <<<<Num(2, 1), Str("v")>>, <<Num(1, 1), Str("u")>>, <<NA, NA>>>>),
     MkTable(<<"a", "b">>,
             <<<<Num(1, 1), Str("u")>>, <<Num(1, 1), Str("u")>>, <<NA, NA>>>>)}
StageTables ==
    {MkTable(<<"a", "b">>, rows) :
        rows \in UNION {[1..n -> WideRowSet] : n \in 0..MaxRows}}
    \cup
    {MkTable(<<"a">>, rows) :
        rows \in UNION {[1..n -> NarrowRowSet] : n \in 0..MaxNarrowRows}}
    \cup ExampleTables

\* the column subsets and strategies of the calls; x is never a column
StageSubsets ==
    {None, Some(<<>>), Some(<<"a">>), Some(<<"b">>), Some(<<"x">>),
     Some(<<"a", "x">>)}
StageStrategies == Strategies \cup {"bogus", ""}
StageFills == {NoneStr, SomeStr("0"), SomeStr("abc"), SomeStr("nan")}
\* the fill texts passed with a strategy: only constant reads fill_value, the
\* other strategies are called without one and with one
FillsFor(strategy) ==
    IF strategy = "constant" THEN StageFills ELSE {NoneStr, SomeStr("0")}

\* the call's result stored: the object passed in before and after, the
\* returned frame and the exception
Returned(t, r) ==
    /\ fprev' = t
    /\ farg' = r.arg
    /\ ftab' = r.ret
    /\ ferr' = r.err
    /\ pc' = "returned"
    /\ UNCHANGED <<fconv, forig, sorterVars>>

\* repeat: 0, or for a remove_duplicates call that follows a
\* remove_duplicates call with the same subset: 2 if that earlier call
\* removed a row, else 1.  removed: the call returned fewer rows than it got
CallRemoveDuplicates ==
    /\ pc = "call"
    /\ \E subset \in StageSubsets :
          LET r == remove_duplicates(ftab, subset) IN
          /\ fcall' = [NoCall EXCEPT
                         !.op = "remove_duplicates",
                         !.subset = subset,
                         !.removed = r.err = "" /\ NRows(r.ret) < NRows(ftab),
                         !.repeat =
                            IF fcall.op = "remove_duplicates" /\ fcall.subset = subset
                            THEN (IF fcall.removed THEN 2 ELSE 1)
                            ELSE 0]
          /\ Returned(ftab, r)
    /\ UNCHANGED mainVars

CallDropConstantColumns ==
    /\ pc = "call"
    /\ fcall' = [NoCall EXCEPT !.op = "drop_constant_columns"]
    /\ Returned(ftab, drop_constant_columns(ftab))
    /\ UNCHANGED mainVars

CallFillMissing ==
    /\ pc = "call"
    /\ \E strategy \in StageStrategies, subset \in StageSubsets :
       \E fill \in FillsFor(strategy) :
          /\ fcall' = [NoCall EXCEPT
                         !.op = "fill_missing",
                         !.subset = subset,
                         !.strategy = strategy,
                         !.fill = fill]
          /\ Returned(ftab, fill_missing(ftab, strategy, fill, subset))
    /\ UNCHANGED mainVars

\* the caller goes on with the returned table (df = stage(df)); of the call
\* only a remove_duplicates call is remembered, for the next call's repeat
Continue ==
    /\ pc = "returned"
    /\ ferr = ""
    /\ pc' = "call"
    /\ fcall' = IF fcall.op = "remove_duplicates"
                THEN [fcall EXCEPT !.repeat = 0]
                ELSE NoCall
    /\ fprev' = NoTable
    /\ farg' = NoTable
    /\ UNCHANGED <<ftab, ferr, fconv, forig, sorterVars, mainVars>>

\* the missing cells of t, each as index label and column label
MissingCells(t) ==
    {<<t.index[p[1]], t.cols[p[2]]>> :
        p \in {q \in (1..NRows(t)) \X (1..Len(t.cols)) : IsNA(t.rows[q[1]][q[2]])}}

\* a caller of the stages with a table of its own
InitStages ==
    /\ pc = "call"
    /\ argv = NoArgs
    /\ args = NoArgs
    /\ df = NoTable
    /\ status = -1
    /\ stdout = <<>>
    /\ stderr = <<>>
    /\ outfile = NoFile
    /\ log = <<>>
    /\ fcall = NoCall
    /\ fprev = NoTable
    /\ farg = NoTable
    /\ ftab \in StageTables
    /\ ferr = ""
    /\ fconv = NoConv
    /\ forig = MissingCells(ftab)
    /\ SorterIdle

\* convert_fill_value called on a dtype and a fill text
CallConvertFillValue ==
    /\ pc = "convert"
    /\ \E dtype \in Dtypes, val \in FillStrings :
          fconv' = [dtype |-> dtype, val |-> val,
                    ret |-> convert_fill_value(dtype, val)]
    /\ pc' = "converted"
    /\ UNCHANGED <<fcall, fprev, farg, ftab, ferr, forig, sorterVars, mainVars>>

\* a caller of convert_fill_value
InitConvert ==
    /\ pc = "convert"
    /\ argv = NoArgs
    /\ args = NoArgs
    /\ df = NoTable
    /\ status = -1
    /\ stdout = <<>>
    /\ stderr = <<>>
    /\ outfile = NoFile
    /\ log = <<>>
    /\ fcall = NoCall
    /\ fprev = NoTable
    /\ farg = NoTable
    /\ ftab = NoTable
    /\ ferr = ""
    /\ fconv = NoConv
    /\ forig = {}
    /\ SorterIdle

\* one iteration of main's loop up to the end of move_or_copy: with
\* --extract the archive is moved or copied first (lines 414, 425), without
\* it the general call is made (line 437).  With --extract and no --dry-run
\* handle_archive follows, else the loop goes on
SortMoveOrCopy ==
    /\ pc = "sort"
    /\ files # <<>>
    /\ \E ok \in BOOLEAN :
          LET r == move_or_copy(source, folder, Head(files), sargs.copy,
                                sargs.dry_run, ok) IN
          /\ source' = r.source
          /\ folder' = r.folder
          /\ written' = r.written
    /\ IF sargs.extract /\ ~sargs.dry_run
       THEN pc' = "extract" /\ UNCHANGED files
       ELSE pc' = "sort" /\ files' = Tail(files)
    /\ UNCHANGED <<sargs, unpacked, finit, mainVars,
                   fcall, fprev, farg, ftab, ferr, fconv, forig>>

\* the rest of the iteration: copied = target (moved = target), then
\* handle_archive(target, ...), then continue
SortHandleArchive ==
    /\ pc = "extract"
    /\ \E ok \in BOOLEAN :
          unpacked' = Append(unpacked,
                             [call |-> handle_archive(folder, 0, ok),
                              file |-> Head(files),
                              written |-> written])
    /\ files' = Tail(files)
    /\ pc' = "sort"
    /\ UNCHANGED <<sargs, source, folder, written, finit, mainVars,
                   fcall, fprev, farg, ftab, ferr, fconv, forig>>

\* a run of the file sorter on a source tree with archives of one name and
\* an Archives folder that may hold files of that name already
InitSorter ==
    /\ pc = "sort"
    /\ argv = NoArgs
    /\ args = NoArgs
    /\ df = NoTable
    /\ status = -1
    /\ stdout = <<>>
    /\ stderr = <<>>
    /\ outfile = NoFile
    /\ log = <<>>
    /\ fcall = NoCall
    /\ fprev = NoTable
    /\ farg = NoTable
    /\ ftab = NoTable
    /\ ferr = ""
    /\ fconv = NoConv
    /\ forig = {}
    /\ sargs \in [copy : BOOLEAN, dry_run : BOOLEAN, extract : BOOLEAN]
    /\ files \in {[k \in 1..n |-> k] : n \in 1..MaxFiles}
    /\ source = Range(files)
    /\ folder \in {fd \in [NameIdx -> {<<>>, <<0>>}] :
                      \A n \in NameIdx : n > MaxSuffix => fd[n] = <<>>}
    /\ written = <<>>
    /\ unpacked = <<>>
    /\ finit = folder

Init == InitMain \/ InitStages \/ InitConvert \/ InitSorter

Next ==
    \/ ParseArgs
    \/ Pretest
    \/ CheckInput
    \/ Load
    \/ Dedup
    \/ DropConst
    \/ FillMissing
    \/ Write
    \/ Confirm
    \/ CallRemoveDuplicates
    \/ CallDropConstantColumns
    \/ CallFillMissing
    \/ Continue
    \/ CallConvertFillValue
    \/ SortMoveOrCopy
    \/ SortHandleArchive

Spec == Init /\ [][Next]_vars

(***************************************************************************)
(* Properties                                                              *)
(***************************************************************************)
AllStages ==
    {"read_table", "remove_duplicates", "drop_constant_columns", "fill_missing",
     "write_table"}
StageRank(st) ==
    CASE st = "read_table" -> 1
      [] st = "remove_duplicates" -> 2
      [] st = "drop_constant_columns" -> 3
      [] st = "fill_missing" -> 4
      [] st = "write_table" -> 5
\* the stage is asked for by the parsed command line
Requested(st) ==
    CASE st = "remove_duplicates" -> args.dedup
      [] st = "drop_constant_columns" -> args.drop_const
      [] st = "fill_missing" -> args.missing.some
      [] OTHER -> TRUE
RanOk(st) == \E i \in 1..Len(log) : log[i].stage = st /\ log[i].err = ""
Started(st) == \E i \in 1..Len(log) : log[i].stage = st
Failed == stderr # <<>> \/ \E i \in 1..Len(log) : log[i].err # ""
Confirmed == \E i \in 1..Len(stdout) : stdout[i] = "Wrote cleaned file"

\* C1: in every run of main the stages run in the order read_table,
\* remove_duplicates, drop_constant_columns, fill_missing, write_table, each
\* at most once and only if requested; each stage is given the table the
\* stage before it produced; write_table starts only after every requested
\* stage has finished.
C1_StageOrder ==
    /\ \A i, j \in 1..Len(log) :
          i < j => StageRank(log[i].stage) < StageRank(log[j].stage)
    /\ \A i \in 1..Len(log) : Requested(log[i].stage)
    /\ \A i \in 2..Len(log) : log[i].inp = log[i - 1].out
    /\ Started("write_table") =>
          \A st \in AllStages \ {"write_table"} : Requested(st) => RanOk(st)
    /\ pc \in {"drop_const", "missing", "write", "confirm"} =>
          (args.dedup => RanOk("remove_duplicates"))
    /\ pc \in {"missing", "write", "confirm"} =>
          (args.drop_const => RanOk("drop_constant_columns"))
    /\ pc \in {"write", "confirm"} =>
          (args.missing.some => RanOk("fill_missing"))

\* a finished run in which all five stages ran and both remove_duplicates
\* and drop_constant_columns changed the table
C1_Witness ==
    /\ pc = "done"
    /\ status = 0
    /\ Len(log) = 5
    /\ log[2].out # log[2].inp
    /\ log[3].out # log[3].inp

\* C2: in a run in which the input check, the load, a stage or the write
\* failed, write_table has not completed and the confirmation is not
\* printed; the confirmation is printed only after the load, every requested
\* stage and the write succeeded.
C2_NoSuccessAfterFailure ==
    /\ Failed => ~RanOk("write_table") /\ ~Confirmed
    /\ Confirmed => \A st \in AllStages : Requested(st) => RanOk(st)

\* a run whose write failed leaving a partial file
C2_Witness ==
    /\ pc = "done"
    /\ status = 5
    /\ outfile.state = "partial"
    /\ RanOk("fill_missing")

\* C3: every fatal condition ends the run with the status of its class
\* (input not found 2, load 3, missing handling 4, write 5, none of them 0),
\* and no exception of a stage ends the run with another outcome.
C3_StatusPerClass ==
    pc = "done" =>
        /\ (\E i \in 1..Len(stderr) : stderr[i] = "Input file not found")
              => status = 2
        /\ \A i \in 1..Len(log) :
              log[i].err # "" =>
                 /\ status \in {2, 3, 4, 5}
                 /\ log[i].stage = "read_table" => status = 3
                 /\ log[i].stage = "fill_missing" => status = 4
                 /\ log[i].stage = "write_table" => status = 5
        /\ status = 0 => ~Failed

\* subset names a label that is no column of t
NamesMissingColumn(t, subset) ==
    Truthy(subset) /\ \E k \in 1..Len(subset.v) : ~HasCol(t, subset.v[k])

\* C4: a remove_duplicates or fill_missing stage of a run whose column
\* subset names a label that is no column of the table it is given raises
\* KeyError, and the run ends with nothing written.
C4_ColumnNotFound ==
    \A i \in 1..Len(log) :
        (\/ /\ log[i].stage = "remove_duplicates"
            /\ NamesMissingColumn(log[i].inp, args.dedup_cols)
         \/ /\ log[i].stage = "fill_missing"
            /\ NamesMissingColumn(log[i].inp, args.missing_cols)
            /\ args.missing.v = "constant" => args.fill.some)
        => /\ log[i].err = "KeyError"
           /\ pc = "done"
           /\ status \notin {-1, 0}
           /\ outfile = NoFile
           /\ ~Started("write_table")

\* C5: fill_missing called with a strategy outside the five raises the
\* unknown-strategy ValueError whatever the table and the subset, and a run
\* of main given such a strategy writes no file.
C5_UnknownStrategy ==
    /\ (pc = "returned" /\ fcall.op = "fill_missing"
            /\ fcall.strategy \notin Strategies)
          => ferr = "ValueError: unknown strategy"
    /\ (argv.missing.some /\ argv.missing.v \notin Strategies)
          => outfile = NoFile /\ ~Started("write_table") /\ status \in {-1, 2}

\* an unknown strategy on a table with rows and a subset naming no column
C5_Witness ==
    /\ pc = "returned"
    /\ fcall.op = "fill_missing"
    /\ fcall.strategy = "bogus"
    /\ fcall.subset = Some(<<"x">>)
    /\ NRows(fprev) > 0
    /\ ferr # ""

HasMissing(t) ==
    \E r \in 1..NRows(t), c \in 1..Len(t.cols) : IsNA(t.rows[r][c])

\* C6: fill_missing with strategy constant and no fill value raises the
\* fill-value ValueError whatever the table and the subset; in a run of main
\* the failure ends the run before write_table.
C6_MissingFillValue ==
    /\ (pc = "returned" /\ fcall.op = "fill_missing"
            /\ fcall.strategy = "constant" /\ ~fcall.fill.some)
          => ferr = "ValueError: fill_value must be provided"
    /\ \A i \in 1..Len(log) :
          (log[i].stage = "fill_missing" /\ args.missing.v = "constant"
                /\ ~args.fill.some)
             => /\ log[i].err = "ValueError: fill_value must be provided"
                /\ status = 4
                /\ ~Started("write_table")
                /\ outfile = NoFile

\* constant without a fill value on a table with no missing cell and a
\* subset naming no column
C6_Witness ==
    /\ pc = "returned"
    /\ fcall.op = "fill_missing"
    /\ fcall.strategy = "constant"
    /\ ~fcall.fill.some
    /\ fcall.subset = Some(<<"x">>)
    /\ NRows(fprev) > 0
    /\ ~HasMissing(fprev)
    /\ ferr # ""

\* C7: remove_duplicates called again with the same subset on the table it
\* returned returns that table.
C7_DedupIdempotent ==
    (pc = "returned" /\ fcall.op = "remove_duplicates" /\ fcall.repeat > 0)
       => ferr = "" /\ ftab = fprev

\* the second of two calls, the first of which removed a row and left two
C7_Witness ==
    /\ pc = "returned"
    /\ fcall.op = "remove_duplicates"
    /\ fcall.repeat = 2
    /\ NRows(fprev) >= 2
    /\ ferr = ""

\* the row of t with index label l
PosOf(t, l) == CHOOSE i \in 1..NRows(t) : t.index[i] = l
Labels(t) == Range(t.index)
\* after holds rows of before, in the order of before, with their cells
RowsKept(before, after) ==
    /\ Labels(after) \subseteq Labels(before)
    /\ \A p, q \in 1..NRows(after) :
          p < q => PosOf(before, after.index[p]) < PosOf(before, after.index[q])
    /\ \A p \in 1..NRows(after) :
          after.rows[p] = before.rows[PosOf(before, after.index[p])]
SameColumns(before, after) ==
    after.cols = before.cols /\ after.dtypes = before.dtypes

\* the comparison columns of a remove_duplicates call
CmpCols(t, subset) == IF Truthy(subset) THEN subset.v ELSE t.cols
\* row i of t has an earlier row with the same cells (missing equal to
\* missing) in all of cmp
HasEarlierTwin(t, i, cmp) ==
    \E j \in 1..NRows(t) :
        /\ j < i
        /\ \A k \in 1..Len(cmp) :
              LET x == t.rows[i][ColIdx(t, cmp[k])]
                  y == t.rows[j][ColIdx(t, cmp[k])]
              IN (IsNA(x) /\ IsNA(y)) \/ (~IsNA(x) /\ ~IsNA(y) /\ x = y)
DedupContract ==
    /\ ferr = ""
    /\ SameColumns(fprev, ftab)
    /\ RowsKept(fprev, ftab)
    /\ \A i \in 1..NRows(fprev) :
          fprev.index[i] \in Labels(ftab)
             <=> ~HasEarlierTwin(fprev, i, CmpCols(fprev, fcall.subset))
DedupCallOnColumns ==
    /\ pc = "returned"
    /\ fcall.op = "remove_duplicates"
    /\ ~NamesMissingColumn(fprev, fcall.subset)

\* C8 as stated: for every table and every subset of its columns,
\* remove_duplicates keeps exactly the rows no earlier row agrees with on the
\* comparison columns, in order, cells and columns unchanged.
C8_DedupContractEveryTable == DedupCallOnColumns => DedupContract

\* C8 (amended): the same for every table that has at least one column.
C8_DedupContract ==
    (DedupCallOnColumns /\ Len(fprev.cols) > 0) => DedupContract

\* a call on a subset that removed a row whose twin agrees on a missing cell
C8_Witness ==
    /\ DedupCallOnColumns
    /\ fcall.subset = Some(<<"a">>)
    /\ Len(fprev.cols) = 2
    /\ NRows(fprev) = 2
    /\ NRows(ftab) = 1
    /\ IsNA(Cell(fprev, 1, "a"))
    /\ fprev.rows[1] # fprev.rows[2]

\* the column has at least two distinct non-missing values
TwoDistinct(t, c) ==
    \E r1, r2 \in 1..NRows(t) :
        /\ ~IsNA(t.rows[r1][c])
        /\ ~IsNA(t.rows[r2][c])
        /\ t.rows[r1][c] # t.rows[r2][c]
\* position in before of the column of after at position c
ColPosIn(before, after, c) == ColIdx(before, after.cols[c])

\* C9: drop_constant_columns never fails; it keeps exactly the columns with
\* at least two distinct non-missing values, in order, with dtype and all
\* cells, and keeps every row.
C9_DropConstantColumns ==
    (pc = "returned" /\ fcall.op = "drop_constant_columns") =>
        /\ ferr = ""
        /\ ftab.index = fprev.index
        /\ Len(ftab.rows) = Len(fprev.rows)
        /\ \A c \in 1..Len(fprev.cols) :
              HasCol(ftab, fprev.cols[c]) <=> TwoDistinct(fprev, c)
        /\ \A c \in 1..Len(ftab.cols) : HasCol(fprev, ftab.cols[c])
        /\ \A c, e \in 1..Len(ftab.cols) :
              c < e => ColPosIn(fprev, ftab, c) < ColPosIn(fprev, ftab, e)
        /\ \A c \in 1..Len(ftab.cols) :
              /\ ftab.dtypes[c] = fprev.dtypes[ColPosIn(fprev, ftab, c)]
              /\ \A r \in 1..NRows(ftab) :
                    /\ Len(ftab.rows[r]) = Len(ftab.cols)
                    /\ ftab.rows[r][c] = fprev.rows[r][ColPosIn(fprev, ftab, c)]

\* a column with a missing cell and one value is dropped beside a kept one
C9_Witness ==
    /\ pc = "returned"
    /\ fcall.op = "drop_constant_columns"
    /\ fprev.cols = <<"a", "b">>
    /\ ftab.cols = <<"b">>
    /\ \E r \in 1..NRows(fprev) : IsNA(Cell(fprev, r, "a"))
    /\ \E r \in 1..NRows(fprev) : ~IsNA(Cell(fprev, r, "a"))

DropCall ==
    /\ pc = "returned"
    /\ fcall.op = "fill_missing"
    /\ fcall.strategy = "drop"
    /\ ~NamesMissingColumn(fprev, fcall.subset)
FiveRowExample ==
    MkTable(<<"a">>, <<<<Num(1, 1)>>, <<NA>>, <<Num(1, 1)>>, <<NA>>, <<Num(1, 1)>>>>)

\* C10: fill_missing with strategy drop returns exactly the rows with no
\* missing cell in a target column (every column when no subset is given),
\* in order and with all their cells; of five rows with rows 2 and 4 missing
\* it returns rows 1, 3 and 5.
C10_DropRows ==
    /\ DropCall =>
          /\ ferr = ""
          /\ SameColumns(fprev, ftab)
          /\ RowsKept(fprev, ftab)
          /\ \A i \in 1..NRows(fprev) :
                fprev.index[i] \in Labels(ftab)
                   <=> \A k \in 1..Len(CmpCols(fprev, fcall.subset)) :
                          ~IsNA(fprev.rows[i][ColIdx(fprev,
                                    CmpCols(fprev, fcall.subset)[k])])
    /\ (DropCall /\ fprev = FiveRowExample) =>
          /\ ftab.index = <<0, 2, 4>>
          /\ ftab.rows = <<<<Num(1, 1)>>, <<Num(1, 1)>>, <<Num(1, 1)>>>>

\* drop on column a keeps a row whose cell in column b is missing
C10_Witness ==
    /\ DropCall
    /\ fcall.subset = Some(<<"a">>)
    /\ NRows(fprev) = 2
    /\ NRows(ftab) = 1
    /\ HasCol(ftab, "b")
    /\ IsNA(Cell(ftab, 1, "b"))

\* the five-row example of C10
C10_ExampleReached == DropCall /\ fprev = FiveRowExample /\ NRows(ftab) = 3

(***************************************************************************)
(* Properties of the mean and median strategies                            *)
(***************************************************************************)
TargetCols(t, subset) == IF Truthy(subset) THEN subset.v ELSE t.cols
IsTarget(t, subset, c) ==
    \E k \in 1..Len(TargetCols(t, subset)) : TargetCols(t, subset)[k] = c
\* the positions of the non-missing cells of column c
Present(t, c) == {r \in 1..NRows(t) : ~IsNA(t.rows[r][c])}
RECURSIVE ProdDen(_, _, _)
ProdDen(t, c, r) ==
    IF r > NRows(t) THEN 1
    ELSE (IF IsNA(t.rows[r][c]) THEN 1 ELSE t.rows[r][c].d) * ProdDen(t, c, r + 1)
\* the sum of the non-missing cells of column c, times D
RECURSIVE ScaledSum(_, _, _, _)
ScaledSum(t, c, r, D) ==
    IF r > NRows(t) THEN 0
    ELSE (IF IsNA(t.rows[r][c]) THEN 0
          ELSE t.rows[r][c].n * (D \div t.rows[r][c].d))
         + ScaledSum(t, c, r + 1, D)
\* v times the number of values of column c is their sum
IsMeanOf(t, c, v) ==
    LET D == ProdDen(t, c, 1) IN
    /\ v.k = "num"
    /\ v.n * D * Cardinality(Present(t, c)) = v.d * ScaledSum(t, c, 1, D)
\* v is the k-th smallest value of column c
IsOrderStat(t, c, k, v) ==
    /\ \E r \in Present(t, c) : t.rows[r][c] = v
    /\ Cardinality({r \in Present(t, c) : NumLess(t.rows[r][c], v)}) < k
    /\ Cardinality({r \in Present(t, c) : ~NumLess(v, t.rows[r][c])}) >= k
\* v is the middle value of column c, or half the sum of the two middle values
IsMedianOf(t, c, v) ==
    LET m == Cardinality(Present(t, c)) IN
    IF m % 2 = 1 THEN IsOrderStat(t, c, (m + 1) \div 2, v)
    ELSE \E r1, r2 \in Present(t, c) :
            /\ IsOrderStat(t, c, m \div 2, t.rows[r1][c])
            /\ IsOrderStat(t, c, m \div 2 + 1, t.rows[r2][c])
            /\ v.k = "num"
            /\ 2 * v.n * t.rows[r1][c].d * t.rows[r2][c].d
                  = v.d * (t.rows[r1][c].n * t.rows[r2][c].d
                           + t.rows[r2][c].n * t.rows[r1][c].d)
StatCall ==
    /\ pc = "returned"
    /\ fcall.op = "fill_missing"
    /\ fcall.strategy \in {"mean", "median"}
    /\ ~NamesMissingColumn(fprev, fcall.subset)
MeanExample ==
    MkTable(<<"a">>, <<<<Num(1, 1)>>, <<NA>>, <<Num(3, 1)>>>>)
MedianExample ==
    MkTable(<<"a">>, <<<<Num(1, 1)>>, <<NA>>, <<Num(3, 1)>>, <<Num(3, 1)>>>>)

\* C11: fill_missing with strategy mean (median) returns without error the
\* table in which every missing cell of a numeric target column that has a
\* value is the mean (median) of the column's values; every other cell, the
\* columns and the rows are as passed in.  mean on [1, missing, 3] gives
\* [1, 2, 3], median on [1, missing, 3, 3] gives [1, 3, 3, 3].
C11_MeanMedian ==
    /\ StatCall =>
          /\ ferr = ""
          /\ ftab.cols = fprev.cols
          /\ ftab.index = fprev.index
          /\ Len(ftab.rows) = Len(fprev.rows)
          /\ \A c \in 1..Len(fprev.cols), r \in 1..NRows(fprev) :
                LET old == fprev.rows[r][c]
                    new == ftab.rows[r][c]
                IN IF /\ IsNA(old)
                      /\ IsTarget(fprev, fcall.subset, fprev.cols[c])
                      /\ IsNumberDtype(fprev.dtypes[c])
                      /\ Present(fprev, c) # {}
                   THEN IF fcall.strategy = "mean"
                        THEN IsMeanOf(fprev, c, new)
                        ELSE IsMedianOf(fprev, c, new)
                   ELSE new = old
    /\ (StatCall /\ fcall.strategy = "mean" /\ fprev = MeanExample) =>
          ftab.rows = <<<<Num(1, 1)>>, <<Num(2, 1)>>, <<Num(3, 1)>>>>
    /\ (StatCall /\ fcall.strategy = "median" /\ fprev = MedianExample) =>
          ftab.rows = <<<<Num(1, 1)>>, <<Num(3, 1)>>, <<Num(3, 1)>>, <<Num(3, 1)>>>>

\* mean on the subset a of a table whose text column b has a missing cell
\* too: a is filled with a fraction, b is left as it is
C11_Witness ==
    /\ StatCall
    /\ fcall.strategy = "mean"
    /\ fcall.subset = None
    /\ fprev.cols = <<"a", "b">>
    /\ NRows(fprev) = 3
    /\ IsNA(Cell(fprev, 3, "b")) /\ IsNA(Cell(ftab, 3, "b"))
    /\ IsNA(Cell(fprev, 3, "a")) /\ Cell(ftab, 3, "a") = Num(3, 2)

\* the median example of C11
C11_MedianExampleReached ==
    StatCall /\ fcall.strategy = "median" /\ fprev = MedianExample /\ ferr = ""

(***************************************************************************)
(* Properties of the mode strategy                                         *)
(***************************************************************************)
ModeCall ==
    /\ pc = "returned"
    /\ fcall.op = "fill_missing"
    /\ fcall.strategy = "mode"
    /\ ~NamesMissingColumn(fprev, fcall.subset)
\* how many cells of column c hold v
Occurs(t, c, v) == Cardinality({r \in 1..NRows(t) : t.rows[r][c] = v})
\* no value of column c occurs more often than v, and v is the least of the
\* values that occur as often: the first element of the sorted modes
IsFirstModeOf(t, c, v) ==
    /\ \E r \in Present(t, c) : t.rows[r][c] = v
    /\ \A r \in Present(t, c) :
          LET w == t.rows[r][c] IN
          /\ Occurs(t, c, w) <= Occurs(t, c, v)
          /\ (Occurs(t, c, w) = Occurs(t, c, v) /\ w # v) => ValLess(v, w)

\* C12: fill_missing with strategy mode returns the table in which every
\* missing cell of a target column that has a value, whatever its type, is a
\* most frequent value of the column, the first of the sorted modes when
\* several values tie; every other cell is as passed in, so a target column
\* with no value and the columns outside the target set are untouched.
C12_Mode ==
    ModeCall =>
       /\ ferr = ""
       /\ ftab.cols = fprev.cols
       /\ ftab.index = fprev.index
       /\ Len(ftab.rows) = Len(fprev.rows)
       /\ \A c \in 1..Len(fprev.cols), r \in 1..NRows(fprev) :
             LET old == fprev.rows[r][c]
                 new == ftab.rows[r][c]
             IN IF /\ IsNA(old)
                   /\ IsTarget(fprev, fcall.subset, fprev.cols[c])
                   /\ Present(fprev, c) # {}
                THEN IsFirstModeOf(fprev, c, new)
                ELSE new = old

\* mode on a table whose number column and text column both have two values
\* that occur once, the larger one first: each missing cell takes the smaller
C12_Witness ==
    /\ ModeCall
    /\ fcall.subset = None
    /\ fprev.rows = <<<<Num(2, 1), Str("v")>>, <<Num(1, 1), Str("u")>>, <<NA, NA>>>>
    /\ ftab.rows[3] = <<Num(1, 1), Str("u")>>

\* mode with the subset b leaves the missing cells of column a, and a column
\* with no value stays missing
C12_UntouchedReached ==
    /\ ModeCall
    /\ fcall.subset = Some(<<"b">>)
    /\ \E r \in 1..NRows(fprev) : IsNA(fprev.rows[r][1]) /\ IsNA(ftab.rows[r][1])
    /\ Present(fprev, 2) = {} /\ NRows(fprev) > 0

(***************************************************************************)
(* Properties of convert_fill_value                                        *)
(***************************************************************************)
\* the value convert_fill_value is to return, as a table over the dtypes
\* and texts of the model
CoercedFill(dtype, val) ==
    CASE dtype = "int64" ->
            IF val = "0" THEN Num(0, 1) ELSE Str(val)
      [] dtype = "float64" ->
            IF val = "0" THEN Num(0, 1)
            ELSE IF val = "1.5" THEN Num(3, 2)
            ELSE IF val = "nan" THEN NA
            ELSE Str(val)
      [] dtype = "bool" ->
            IF val \in {"Yes"} THEN Bool(TRUE)
            ELSE IF val \in {"0", "N"} THEN Bool(FALSE)
            ELSE Bool(val # "")
      [] OTHER -> Str(val)
ConstantCall ==
    /\ pc = "returned"
    /\ fcall.op = "fill_missing"
    /\ fcall.strategy = "constant"
    /\ fcall.fill.some
    /\ ~NamesMissingColumn(fprev, fcall.subset)

\* C13: convert_fill_value returns, for every dtype and text: the parsed
\* integer for an integer column ("0" gives the integer 0), the parsed
\* float for a float column, True or False by the case-insensitive word
\* lists and else the truthiness of the text for a boolean column, the text
\* for a text column, and the text itself when parsing fails; a constant
\* fill with any text on existing columns returns without error, each
\* missing target cell holding the converted value.
C13_ConvertFillValue ==
    /\ pc = "converted" => fconv.ret = CoercedFill(fconv.dtype, fconv.val)
    /\ ConstantCall =>
          /\ ferr = ""
          /\ ftab.cols = fprev.cols
          /\ ftab.index = fprev.index
          /\ Len(ftab.rows) = Len(fprev.rows)
          /\ \A c \in 1..Len(fprev.cols), r \in 1..NRows(fprev) :
                LET old == fprev.rows[r][c]
                    new == ftab.rows[r][c]
                IN IF IsNA(old) /\ IsTarget(fprev, fcall.subset, fprev.cols[c])
                   THEN new = CoercedFill(fprev.dtypes[c], fcall.fill.v)
                   ELSE new = old

\* a constant fill with a text that is no number, on a float column with a
\* missing cell: the call returns and the cell holds the text
C13_Witness ==
    /\ ConstantCall
    /\ fcall.fill = SomeStr("abc")
    /\ ferr = ""
    /\ \E c \in 1..Len(fprev.cols), r \in 1..NRows(fprev) :
          /\ fprev.dtypes[c] = "float64"
          /\ IsNA(fprev.rows[r][c])
          /\ ftab.rows[r][c] = Str("abc")

\* convert_fill_value on a boolean column and a word in capitals
C13_BoolWordReached ==
    pc = "converted" /\ fconv.dtype = "bool" /\ fconv.val = "N"
       /\ fconv.ret = Bool(FALSE)

(***************************************************************************)
(* Missing cells after the stages                                          *)
(***************************************************************************)
\* every missing cell of t is one of the cells orig, by the index label of
\* its row and the label of its column
MissingFrom(orig, t) ==
    \A r \in 1..NRows(t), c \in 1..Len(t.cols) :
        IsNA(t.rows[r][c]) => <<t.index[r], t.cols[c]>> \in orig
\* every row has one cell per column and one index label
Rectangular(t) ==
    /\ Len(t.dtypes) = Len(t.cols)
    /\ Len(t.index) = Len(t.rows)
    /\ \A r \in 1..Len(t.rows) : Len(t.rows[r]) = Len(t.cols)
LoadedAt(i) == log[i].stage = "read_table" /\ log[i].err = ""

\* C14: after any sequence of stage calls, with any strategy and fill text,
\* every missing cell of the table the stages have produced was missing in
\* the same row and column of the table the sequence started with, and all
\* columns have the same length; the same for every table of a run of main
\* against the table read_table returned.
C14_NoNewMissing ==
    /\ (pc \in {"call", "returned"} /\ ferr = "") =>
          MissingFrom(forig, ftab) /\ Rectangular(ftab)
    /\ \A i \in 1..Len(log) : LoadedAt(i) =>
          /\ \A j \in i..Len(log) : log[j].err = "" =>
                /\ MissingFrom(MissingCells(log[i].out), log[j].out)
                /\ Rectangular(log[j].out)
          /\ MissingFrom(MissingCells(log[i].out), df) /\ Rectangular(df)

\* a stage call returns a table that still has a missing cell, in a row
\* that has moved up since an earlier call removed a row above it, and in
\* which another missing cell has been filled
C14_Witness ==
    /\ pc = "returned" /\ ferr = ""
    /\ fcall.op = "fill_missing"
    /\ Len(ftab.cols) = 2
    /\ \E r \in 1..NRows(ftab) :
          /\ ftab.index[r] # r - 1
          /\ IsNA(ftab.rows[r][2])
          /\ ~IsNA(ftab.rows[r][1])
          /\ <<ftab.index[r], ftab.cols[1]>> \in forig

\* a constant fill whose text parses to NaN returns the missing cells missing
C14_NaNFillReached ==
    /\ ConstantCall /\ fcall.fill = SomeStr("nan") /\ ferr = ""
    /\ HasMissing(fprev) /\ HasMissing(ftab)

(***************************************************************************)
(* The table object passed to a stage                                      *)
(***************************************************************************)
StageReturned == pc = "returned" /\ ferr = ""
InPlaceCall ==
    fcall.op = "fill_missing" /\ fcall.strategy \in {"mean", "median", "mode"}

\* C15 as claimed: after remove_duplicates, drop_constant_columns or
\* fill_missing (any strategy) returns, the table object passed in holds the
\* rows, columns and cells it held before the call.
C15_ArgumentUnchanged ==
    StageReturned => farg = fprev

\* C15, amended: after remove_duplicates, drop_constant_columns or
\* fill_missing with strategy drop or constant returns, the table object
\* passed in holds the rows, columns and cells it held before the call;
\* after fill_missing with strategy mean, median or mode returns, the table
\* object passed in holds the filled cells: it is the table returned.
C15_ArgumentAfterReturn ==
    StageReturned =>
       IF InPlaceCall THEN farg = ftab ELSE farg = fprev

\* a constant fill that filled a cell: the result differs from the table
\* passed in, which is as before
C15_Witness ==
    /\ StageReturned
    /\ fcall.op = "fill_missing" /\ fcall.strategy = "constant"
    /\ ftab # fprev
    /\ farg = fprev

\* a median fill that filled a cell of the table passed in
C15_InPlaceReached ==
    /\ StageReturned
    /\ fcall.op = "fill_missing" /\ fcall.strategy = "median"
    /\ farg # fprev
    /\ farg = ftab

(***************************************************************************)
(* The table object passed to fill_missing when it raises                  *)
(***************************************************************************)
\* C16: whenever fill_missing raises (unknown strategy, constant without a
\* fill value, or a target column that does not exist), the table object
\* passed in holds what it held before the call: no target column listed
\* before the offending one has been filled, whatever the strategy.
C16_ArgumentUnchangedOnFailure ==
    (pc = "returned" /\ fcall.op = "fill_missing" /\ ferr # "") => farg = fprev

(***************************************************************************)
(* The file sorter: the archive that is unpacked                           *)
(***************************************************************************)
\* C17: in a run with --extract and without --dry-run, every handle_archive
\* call that follows a move or copy is made on the name the archive was
\* written to and finds there the archive just moved or copied, whatever
\* the Archives folder held at the start; and no file that was in the
\* folder is overwritten.
C17_UnpacksWrittenArchive ==
    /\ \A i \in 1..Len(unpacked) :
          unpacked[i].written # <<>> =>
             /\ unpacked[i].call.src = unpacked[i].written[1]
             /\ unpacked[i].call.found = <<unpacked[i].file>>
    /\ \A n \in NameIdx : finit[n] # <<>> => folder[n] = finit[n]

====
